---------------------------- MODULE Spec2Model ----------------------------
(***************************************************************************)
(* QUIT: the DESPOT1 T1/PD estimator (Source/qdespot1.cpp) and the signal  *)
(* synthesis filter of qsignal (Source/qsignal.cpp).                       *)
(*                                                                         *)
(* Numbers.  A C++ double is modelled as a fixed-point number v/SCALE with *)
(* |v| <= VMAX, together with the IEEE-754 special values NaN, +Inf and    *)
(* -Inf.  Every arithmetic operation rounds to the nearest representable   *)
(* value, overflows to an infinity and follows the IEEE rules for the      *)
(* special values (x/0, 0/0, Inf-Inf, 0*Inf, comparisons with NaN).        *)
(* T1 is kept through E1 = exp(-TR/T1): log and exp only ever occur as the *)
(* pair T1 = -TR/log(b0), E1 = exp(-TR/T1), with TR > 0.                   *)
(***************************************************************************)
EXTENDS Integers, Sequences, FiniteSets, TLC

\* ------------------------------------------------------------ bounds
SCALE == 256           \* resolution of the number format: 1/SCALE
MaxMagnitude == 128    \* largest finite magnitude; beyond it: overflow to Inf
MaxData == 2           \* measured magnitudes are 0..MaxData quarters
MaxIts == 4            \* largest iteration count given to setIterations
NVoxels == 4           \* voxels of the qsignal images
NThreads == 2          \* workers of the qsignal filter

VMAX == SCALE * MaxMagnitude

\* ------------------------------------------------------------ doubles
\* a finite double is the integer v standing for v/SCALE; the special values
\* lie outside the finite range
Num(i) == i
PInf == VMAX + 1
NInf == -(VMAX + 1)
NaN == VMAX + 2
Zero == Num(0)
One == Num(SCALE)

IsNaN(a) == a = NaN
IsInf(a) == a = PInf \/ a = NInf
IsNum(a) == ~IsNaN(a) /\ ~IsInf(a)
Sgn(i) == IF i > 0 THEN 1 ELSE IF i < 0 THEN -1 ELSE 0
AbsI(i) == IF i < 0 THEN -i ELSE i

\* overflow to an infinity
Norm(i) == IF i > VMAX THEN PInf ELSE IF i < -VMAX THEN NInf ELSE i
\* n/d rounded to the nearest integer, d # 0
RoundDiv(m, d) == Sgn(m) * Sgn(d) * ((AbsI(m) + (AbsI(d) \div 2)) \div AbsI(d))
InfOf(s) == IF s < 0 THEN NInf ELSE PInf

Neg(a) == IF IsNaN(a) THEN NaN ELSE -a
Abs(a) == IF IsNaN(a) THEN NaN ELSE AbsI(a)
Add(a, b) ==
    IF IsNaN(a) \/ IsNaN(b) THEN NaN
    ELSE IF IsInf(a) THEN (IF IsInf(b) /\ b # a THEN NaN ELSE a)
    ELSE IF IsInf(b) THEN b
    ELSE Norm(a + b)
Sub(a, b) == Add(a, Neg(b))
Mul(a, b) ==
    IF IsNaN(a) \/ IsNaN(b) THEN NaN
    ELSE IF IsInf(a) \/ IsInf(b)
         THEN (IF a = 0 \/ b = 0 THEN NaN ELSE InfOf(Sgn(a) * Sgn(b)))
    ELSE Norm(RoundDiv(a * b, SCALE))
Div(a, b) ==
    IF IsNaN(a) \/ IsNaN(b) THEN NaN
    ELSE IF IsInf(a) /\ IsInf(b) THEN NaN
    ELSE IF IsInf(a) THEN InfOf(Sgn(a) * (IF b < 0 THEN -1 ELSE 1))
    ELSE IF IsInf(b) THEN Zero
    ELSE IF b = 0 THEN (IF a = 0 THEN NaN ELSE InfOf(a))
    ELSE Norm(RoundDiv(a * SCALE, b))
Square(a) == Mul(a, a)
\* a > b and a < b; false as soon as one side is NaN
Gt(a, b) == ~IsNaN(a) /\ ~IsNaN(b) /\ a > b
Lt(a, b) == Gt(b, a)
IsFinite(a) == IsNum(a)

\* std::sin, std::cos, std::tan on [0, 1.2] rad: the Taylor polynomials
\* x - x^3/6 + x^5/120 and 1 - x^2/2 + x^4/24 - x^6/720, exact to the
\* resolution of the number format; sin(0) = tan(0) = 0 and cos(0) = 1 exactly.
Sin(x) ==
    LET x2 == Mul(x, x)
        x3 == Mul(x2, x)
        x5 == Mul(x3, x2)
    IN  Add(Sub(x, Div(x3, Num(6 * SCALE))), Div(x5, Num(120 * SCALE)))
Cos(x) ==
    LET x2 == Mul(x, x)
        x4 == Mul(x2, x2)
        x6 == Mul(x4, x2)
    IN  Sub(Add(Sub(One, Div(x2, Num(2 * SCALE))), Div(x4, Num(24 * SCALE))),
            Div(Div(x6, Num(24 * SCALE)), Num(30 * SCALE)))
Tan(x) == Div(Sin(x), Cos(x))


\* ------------------------------------------------------------ vectors
\* a vector given entry by entry, as the sequence of its entries
Vec(f) == f \o <<>>
RECURSIVE SumTo(_, _)
SumTo(f, k) == IF k = 0 THEN Zero ELSE Add(SumTo(f, k - 1), f[k])
Sum(f) == SumTo(f, Len(f))

\* ------------------------------------------------------------ T1
\* outputs[1] = -TR / log(b0), kept as the E1 = exp(-TR/T1) it stands for:
\*   b0 NaN or b0 < 0   log is NaN                  T1 = NaN
\*   b0 = 0             log = -Inf                  T1 = +0
\*   0 < b0 < 1         log < 0                     T1 > 0, finite
\*   b0 = 1             log = +0                    T1 = -Inf
\*   b0 > 1             log > 0                     T1 < 0
\*   b0 = +Inf          log = +Inf                  T1 = -0
NegTROverLog(b0) ==
    IF IsNaN(b0) \/ b0 < 0 THEN [E1 |-> NaN] ELSE [E1 |-> b0]
ExpNegTROver(T1) == T1.E1
T1IsNaN(T1) == IsNaN(T1.E1)
T1IsPositive(T1) == IsNum(T1.E1) /\ Zero < T1.E1 /\ T1.E1 < One
T1IsFinite(T1) == ~IsNaN(T1.E1) /\ T1.E1 # One
\* T1 <= 0 (false for NaN)
T1NonPositive(T1) == ~T1IsNaN(T1) /\ ~T1IsPositive(T1)

\* ------------------------------------------------------------ sequences
\* SPGRSimple: the flip angles in radians; TR > 0 is carried by E1.
Quarter == SCALE \div 4
Flips == { <<Zero, Num(Quarter)>>, <<Num(Quarter), Num(2 * Quarter)>>,
           <<Num(Quarter), Num(2 * Quarter), Num(3 * Quarter)>> }
size(seq) == Len(seq)
DataValues == { Num(k * Quarter) : k \in 0..MaxData }
B1Values == { Zero, One, Num(2 * SCALE) }
\* the constants vectors a caller passes: length 1, or 0, or 2
Consts == { <<c>> : c \in B1Values } \cup { <<>>, <<One, One>> }
Vectors(k) == [1..k -> DataValues]

\* ------------------------------------------------------------ forward model
\* One_SPGR: S = PD * sin(flip*B1) * (1 - E1) / (1 - E1*cos(flip*B1)),
\* E1 = exp(-TR/T1); a NumericalDomainError for T1 <= 0.
SPGRDomainError(T1) == T1NonPositive(T1)
One_SPGR(flip, PD, T1, b1) ==
    LET E1 == ExpNegTROver(T1)
    IN  Vec([i \in 1..Len(flip) |->
               Div(Mul(Mul(PD, Sin(Mul(flip[i], b1))), Sub(One, E1)),
                   Sub(One, Mul(E1, Cos(Mul(flip[i], b1)))))])
\* SPGRSimple::signal(SCD, p) with p = {PD, T1, T2, f0, B1}
signal(seq, p) == One_SPGR(seq, p[1], p[2], p[5])
VAbs(v) == Vec([i \in 1..Len(v) |-> Abs(v[i])])

\* ------------------------------------------------------------ apply
\* line 98: flip = sequence->flip() * B1
flipOf(seq, b1) == Vec([i \in 1..Len(seq) |-> Mul(seq[i], b1)])
\* line 99: Y = data / sin(flip)
Yof(flip, d) == Vec([i \in 1..Len(flip) |-> Div(d[i], Sin(flip[i]))])
\* lines 100-102: X.col(0) = data / tan(flip), X.col(1) = 1
Xof(flip, d) == Vec([i \in 1..Len(flip) |-> Div(d[i], Tan(flip[i]))])
\* a zero divisor in lines 99 or 101
ZeroDivisor(flip) ==
    \E i \in 1..Len(flip) : Sin(flip[i]) = Zero \/ Tan(flip[i]) = Zero

\* PartialPivLU of a 2x2 matrix A = <<a00, a01, a10, a11>> and solve(r):
\* the pivot of column 0 is the row of the largest |a_i0| (the first one on a
\* tie or a NaN); a zero pivot is not divided by; then L y = P r, U x = y.
PartialPivLuSolve(A, r) ==
    LET swap == Gt(Abs(A[3]), Abs(A[1]))
        p00 == IF swap THEN A[3] ELSE A[1]
        p01 == IF swap THEN A[4] ELSE A[2]
        p10 == IF swap THEN A[1] ELSE A[3]
        p11 == IF swap THEN A[2] ELSE A[4]
        r0 == IF swap THEN r[2] ELSE r[1]
        r1 == IF swap THEN r[1] ELSE r[2]
        l10 == IF p00 = Zero THEN p10 ELSE Div(p10, p00)
        u11 == Sub(p11, Mul(l10, p01))
        y1 == Sub(r1, Mul(l10, r0))
        x1 == Div(y1, u11)
        xx0 == Div(Sub(r0, Mul(p01, x1)), p00)
    IN  <<xx0, x1>>

\* line 103: b = (X'X).partialPivLu().solve(X'Y)
LinearSolve(X, Y) ==
    LET k == Len(X)
        xx == Vec([i \in 1..k |-> Mul(X[i], X[i])])
        xy == Vec([i \in 1..k |-> Mul(X[i], Y[i])])
    IN  PartialPivLuSolve(<<Sum(xx), Sum(X), Sum(X), Num(k * SCALE)>>,
                          <<Sum(xy), Sum(Y)>>)
\* lines 104-105 and 111-112: outputs from b
OutputsOf(b) == <<Div(b[2], Sub(One, b[1])), NegTROverLog(b[1])>>

\* line 109: W = (sin(flip) / (1 - exp(-TR/T1) * cos(flip)))^2
Wof(flip, T1) ==
    Vec([i \in 1..Len(flip) |->
            Square(Div(Sin(flip[i]),
                       Sub(One, Mul(ExpNegTROver(T1), Cos(flip[i])))))])
\* line 110: b = (X'WX).partialPivLu().solve(X'WY)
WeightedSolve(X, Y, W) ==
    LET k == Len(X)
        xw == Vec([i \in 1..k |-> Mul(X[i], W[i])])
        xwx == Vec([i \in 1..k |-> Mul(xw[i], X[i])])
        xwy == Vec([i \in 1..k |-> Mul(xw[i], Y[i])])
        wy == Vec([i \in 1..k |-> Mul(W[i], Y[i])])
    IN  PartialPivLuSolve(<<Sum(xwx), Sum(xw), Sum(xw), Sum(W)>>,
                          <<Sum(xwy), Sum(wy)>>)

\* T1Functor::operator(): diffs = |signal(SCD, {PD, T1, 0, 0, m_B1})| - m_data
FullParams(params, m_B1) == <<params[1], params[2], Zero, Zero, m_B1>>
T1Functor(seq, m_data, m_B1, params) ==
    LET s == signal(seq, FullParams(params, m_B1))
    IN  Vec([i \in 1..Len(seq) |-> Sub(Abs(s[i]), m_data[i])])
\* the squared norm the optimizer compares
SquaredNorm(v) == Sum(Vec([i \in 1..Len(v) |-> Square(v[i])]))

\* line 123: resids = data - theory
Residuals(d, theory) == Vec([i \in 1..Len(theory) |-> Sub(d[i], theory[i])])

\* a loop that stops one pass short
WLLSContinue_Short(k, its) == k + 1 < its
\* a loop that makes one pass more
WLLSContinue_Inclusive(k, its) == k <= its
\* line 108: the loop condition of the reweighting loop
WLLSContinue(k, its) == k < its
\* lines 109-112: one reweighting pass
WLLSPass(f, XX, YY, out) == OutputsOf(WeightedSolve(XX, YY, Wof(f, out[2])))
\* a cap that forgets the "+ 1"
Maxfev_NoPlusOne(its, sz) == its * sz
\* line 118: lm.setMaxfev(m_iterations * (sequence->size() + 1))
Maxfev(its, sz) == its * (sz + 1)
\* line 119: lm.minimize(outputs) starts from what outputs holds
LMStart(out) == out
\* the points the optimizer may try: {PD, T1} with T1 > 0
LMTrialPoints == { <<One, [E1 |-> Num(2 * Quarter)]>>,
                   <<Num(2 * Quarter), [E1 |-> Num(3 * Quarter)]>> }
\* forward differences: f(x) and one evaluation per parameter
JacobianEvals == 1 + 2

VARIABLES
    m_type, m_iterations,          \* DESPOT1's members
    pc,                            \* where the call of apply stands
    sequence, data, inputs,        \* apply's arguments
    oob,                           \* what reads past the end of data returned
    B1, flip, X, Y,                \* apply's locals
    outputs, resids,               \* apply's results
    n,                             \* the loop counter of line 108
    nfev, maxfev, x0, fnorm,       \* the optimizer: evaluations, cap, start,
                                   \* squared norm at the current point
    fullParams,                    \* T1Functor's fullParams, last evaluation
    \* qsignal
    qpc,                           \* where qsignal's main stands
    sigma,                         \* static double sigma
    mask,                          \* main's mask reader: null or the image
    filterMask,                    \* the filter's mask input (GetMask())
    region,                        \* the region of each worker
    iters,                         \* each worker's iterators
    out,                           \* the output image (GetOutput())
    writers,                       \* which workers have set each output voxel
    \* the command lines and the standard input of the two programs
    model,                         \* qsignal: static shared_ptr<Model> model
    modelOpt,                      \* qsignal: the last of --1, --2, --3 given
    ipc,                           \* qsignal: where parseInput stands
    type,                          \* parseInput: string type
    cs, names,                     \* parseInput: the two lists it fills
    dpc,                           \* qdespot1: where main stands
    algoArg                        \* qdespot1: the last argument of --algo

d1vars == <<m_type, m_iterations, pc, sequence, data, inputs, oob, B1, flip,
            X, Y, outputs, resids, n, nfev, maxfev, x0, fnorm, fullParams>>
qvars == <<qpc, sigma, mask, filterMask, region, iters, out, writers>>
ivars == <<model, modelOpt, ipc, type, cs, names, dpc, algoArg>>
vars == <<d1vars, qvars, ivars>>

Types == {"LLS", "WLLS", "NLLS"}
\* the data apply reads: the caller's vector, then the reads past its end
EffData == data \o oob

D1Init ==
    /\ m_type = "LLS"
    /\ m_iterations = 4
    /\ pc = "idle"
    /\ sequence = <<>>
    /\ data = <<>>
    /\ inputs = <<>>
    /\ oob = <<>>
    /\ B1 = One
    /\ flip = <<>>
    /\ X = <<>>
    /\ Y = <<>>
    /\ outputs = <<Zero, [E1 |-> Zero]>>
    /\ resids = <<>>
    /\ n = 0
    /\ nfev = 0
    /\ maxfev = 0
    /\ x0 = <<Zero, [E1 |-> Zero]>>
    /\ fnorm = Zero
    /\ fullParams = <<>>


\* line 79
setType(t) ==
    /\ pc = "idle"
    /\ m_type' = t
    /\ UNCHANGED <<m_iterations, pc, sequence, data, inputs, oob, B1, flip,
                   X, Y, outputs, resids, n, nfev, maxfev, x0, fnorm, fullParams>>
    /\ UNCHANGED <<qvars, ivars>>

\* line 80
setIterations(k) ==
    /\ pc = "idle"
    /\ m_iterations' = k
    /\ UNCHANGED <<m_type, pc, sequence, data, inputs, oob, B1, flip,
                   X, Y, outputs, resids, n, nfev, maxfev, x0, fnorm, fullParams>>
    /\ UNCHANGED <<qvars, ivars>>

\* what lines 97-103 read out of range: inputs[0] of an empty vector, data[i]
\* past the end of data
OutOfRange(seq, d, c) == Len(c) = 0 \/ Len(d) # size(seq)

\* lines 97-105 in a build with eigen_assert: the range or size assertion fails
apply_assert(seq, d, c) ==
    /\ pc = "idle"
    /\ OutOfRange(seq, d, c)
    /\ pc' = "aborted"
    /\ sequence' = seq /\ data' = d /\ inputs' = c
    /\ UNCHANGED <<m_type, m_iterations, oob, B1, flip, X, Y, outputs,
                   resids, n, nfev, maxfev, x0, fnorm, fullParams>>
    /\ UNCHANGED <<qvars, ivars>>

\* lines 97-105 and the choice of the strategy (106, 114); with NDEBUG the
\* reads out of range return whatever the memory holds
apply_linear(seq, d, c) ==
    /\ pc = "idle"
    /\ \E b1 \in (IF Len(c) = 0 THEN B1Values ELSE {c[1]}),
          pad \in (IF Len(d) < size(seq) THEN Vectors(size(seq) - Len(d))
                   ELSE {<<>>}) :
          LET f == flipOf(seq, b1)
              YY == Yof(f, d \o pad)
              XX == Xof(f, d \o pad)
          IN  /\ B1' = b1
              /\ oob' = pad
              /\ flip' = f
              /\ Y' = YY
              /\ X' = XX
              /\ outputs' = OutputsOf(LinearSolve(XX, YY))
    /\ sequence' = seq /\ data' = d /\ inputs' = c
    /\ n' = 0
    /\ pc' = CASE m_type = "LLS" -> "resid"
               [] m_type = "WLLS" -> "wlls"
               [] m_type = "NLLS" -> "nlls"
    /\ UNCHANGED <<m_type, m_iterations, resids, nfev, maxfev, x0, fnorm,
                   fullParams>>
    /\ UNCHANGED <<qvars, ivars>>

\* lines 108-112: one pass of the loop
apply_WLLS_pass ==
    /\ pc = "wlls"
    /\ WLLSContinue(n, m_iterations)
    /\ outputs' = WLLSPass(flip, X, Y, outputs)
    /\ n' = n + 1
    /\ UNCHANGED <<m_type, m_iterations, pc, sequence, data, inputs, oob, B1,
                   flip, X, Y, resids, nfev, maxfev, x0, fnorm, fullParams>>
    /\ UNCHANGED <<qvars, ivars>>

\* line 108: the loop condition fails
apply_WLLS_end ==
    /\ pc = "wlls"
    /\ ~WLLSContinue(n, m_iterations)
    /\ pc' = "resid"
    /\ UNCHANGED <<m_type, m_iterations, sequence, data, inputs, oob, B1,
                   flip, X, Y, outputs, resids, n, nfev, maxfev, x0, fnorm, fullParams>>
    /\ UNCHANGED <<qvars, ivars>>

\* lines 115-119, to the end of LevenbergMarquardt::minimizeInit: improper
\* input (cap <= 0, fewer values than parameters) returns at once; otherwise
\* the functor is evaluated at the start
apply_NLLS ==
    /\ pc = "nlls"
    /\ maxfev' = Maxfev(m_iterations, size(sequence))
    /\ x0' = LMStart(outputs)
    /\ outputs' = x0'
    /\ IF maxfev' <= 0 \/ size(sequence) < 2
       THEN /\ pc' = "resid"
            /\ nfev' = 0
            /\ UNCHANGED <<fullParams, fnorm>>
       ELSE /\ fullParams' = FullParams(x0', B1)
            /\ nfev' = 1
            /\ IF SPGRDomainError(fullParams'[2])
               THEN pc' = "threw" /\ UNCHANGED fnorm
               ELSE /\ pc' = "lm"
                    /\ fnorm' = SquaredNorm(T1Functor(sequence, EffData, B1, x0'))
    /\ UNCHANGED <<m_type, m_iterations, sequence, data, inputs, oob, B1,
                   flip, X, Y, resids, n>>
    /\ UNCHANGED <<qvars, ivars>>

\* minimizeOneStep, first half: the Jacobian by forward differences, counted
\* and not tested against the cap; then the gradient test, whose outcome is
\* not computed here
lm_jacobian ==
    /\ pc = "lm"
    /\ nfev' = nfev + JacobianEvals
    /\ \E small \in BOOLEAN : pc' = IF small THEN "resid" ELSE "lm_trial"
    /\ UNCHANGED <<m_type, m_iterations, sequence, data, inputs, oob, B1,
                   flip, X, Y, outputs, resids, n, maxfev, x0, fnorm,
                   fullParams>>
    /\ UNCHANGED <<qvars, ivars>>

\* minimizeOneStep, inner loop: the functor at a trial point; the point is
\* taken when it lowers the norm; then the convergence tests (not computed
\* here) and the test of the cap
lm_trial ==
    /\ pc = "lm_trial"
    /\ \E p \in LMTrialPoints, converged \in BOOLEAN :
          LET fnorm1 == SquaredNorm(T1Functor(sequence, EffData, B1, p))
              better == Lt(fnorm1, fnorm)
          IN  /\ fullParams' = FullParams(p, B1)
              /\ fnorm' = IF better THEN fnorm1 ELSE fnorm
              /\ nfev' = nfev + 1
              /\ outputs' = IF better THEN p ELSE outputs
              /\ pc' = IF converged \/ nfev' >= maxfev THEN "resid"
                       ELSE IF better THEN "lm" ELSE "lm_trial"
    /\ UNCHANGED <<m_type, m_iterations, sequence, data, inputs, oob, B1,
                   flip, X, Y, resids, n, maxfev, x0>>
    /\ UNCHANGED <<qvars, ivars>>

\* lines 122-123
apply_resids ==
    /\ pc = "resid"
    /\ IF SPGRDomainError(outputs[2])
       THEN /\ pc' = "threw"
            /\ UNCHANGED resids
       ELSE /\ resids' = Residuals(EffData,
                            VAbs(One_SPGR(sequence, outputs[1], outputs[2], B1)))
            /\ pc' = "done"
    /\ UNCHANGED <<m_type, m_iterations, sequence, data, inputs, oob, B1,
                   flip, X, Y, outputs, n, nfev, maxfev, x0, fnorm, fullParams>>
    /\ UNCHANGED <<qvars, ivars>>



\* the calls a harness can make
Calls == { <<seq, d, c>> \in Flips \X (Vectors(1) \cup Vectors(2) \cup Vectors(3)) \X Consts :
             Len(d) \in {size(seq) - 1, size(seq)} }

D1Next ==
    \/ \E t \in Types : setType(t)
    \/ \E k \in 0..MaxIts : setIterations(k)
    \/ pc = "idle" /\ \E call \in Calls : apply_assert(call[1], call[2], call[3])
    \/ pc = "idle" /\ \E call \in Calls : apply_linear(call[1], call[2], call[3])
    \/ apply_WLLS_pass
    \/ apply_WLLS_end
    \/ apply_NLLS
    \/ lm_jacobian
    \/ lm_trial
    \/ apply_resids

\* ------------------------------------------------------------ qsignal
Voxels == 1..NVoxels
Threads == 1..NThreads
\* an image pointer: null, or an image
Null == [null |-> TRUE, img |-> <<>>]
Image(i) == [null |-> FALSE, img |-> i]
\* a mask image: zero or non-zero at each voxel
MaskImages == { Image(i) : i \in [Voxels -> {0, 1}] }
\* the parameter images: voxel v holds the parameter vector of voxel v
ParamImage(v) == <<"parameters", v>>
\* line 135: m_sequence->signal(m_model, parameters).cast<complex<float>>()
signalOf(parameters) == <<"signal", parameters>>
\* a voxel of the allocated output that nothing has set
Unset == <<"unset">>
SigmaValues == {Zero, Num(Quarter)}

\* the splitter's regions: the workers' regions are contiguous, disjoint and
\* cover the image, <<first, last>> each (first > last: empty)
Splits ==
    { r \in [Threads -> (0..NVoxels + 1) \X (0..NVoxels)] :
        /\ r[1][1] = 1
        /\ r[NThreads][2] = NVoxels
        /\ \A t \in Threads : r[t][1] <= r[t][2] + 1
        /\ \A t \in Threads \ {NThreads} : r[t + 1][1] = r[t][2] + 1 }

\* an output iterator over the whole image instead of the thread's region
OutputIterRegion_WholeImage(r) == <<1, NVoxels>>
\* line 127: outputIter(this->GetOutput(), region)
OutputIterRegion(r) == r
\* lines 121, 125: the input and mask iterators walk the region
InputIterRegion(r) == r

QInit ==
    /\ qpc = "options"
    /\ sigma = Zero
    /\ mask = Null
    /\ filterMask = Null
    /\ region = [t \in Threads |-> <<1, 0>>]
    /\ iters = [t \in Threads |-> [st |-> "new", in |-> 0, mask |-> 0, out |-> 0]]
    /\ out = [v \in Voxels |-> Unset]
    /\ writers = [v \in Voxels |-> {}]

\* line 262: case 'N': sigma = atof(optarg)
opt_noise(val) ==
    /\ qpc = "options"
    /\ sigma' = val
    /\ UNCHANGED <<qpc, mask, filterMask, region, iters, out, writers>>
    /\ UNCHANGED <<d1vars, ivars>>

\* lines 263-267: case 'm': mask = ReadImageF::New(); mask->SetFileName(optarg)
opt_mask(img) ==
    /\ qpc = "options"
    /\ mask' = img
    /\ UNCHANGED <<qpc, sigma, filterMask, region, iters, out, writers>>
    /\ UNCHANGED <<d1vars, ivars>>

\* lines 294-334: the options are read; SetModel, SetInput of every parameter
\* image, SetSequence, and the writer's Update: the output is allocated
\* (GenerateOutputInformation) and split into the workers' regions.  Nothing
\* here hands main's mask to the filter.
main_update ==
    /\ qpc = "options"
    /\ qpc' = "threads"
    /\ region' \in Splits
    /\ out' = [v \in Voxels |-> Unset]
    /\ writers' = [v \in Voxels |-> {}]
    /\ iters' = [t \in Threads |-> [st |-> "new", in |-> 0, mask |-> 0, out |-> 0]]
    /\ UNCHANGED <<sigma, mask, filterMask>>
    /\ UNCHANGED <<d1vars, ivars>>

\* lines 119-127: the worker's iterators
ThreadedGenerateData_begin(t) ==
    /\ qpc = "threads"
    /\ iters[t].st = "new"
    /\ iters' = [iters EXCEPT ![t] =
                   [st |-> "run",
                    in |-> InputIterRegion(region[t])[1],
                    mask |-> IF filterMask.null THEN 0
                             ELSE InputIterRegion(region[t])[1],
                    out |-> OutputIterRegion(region[t])[1]]]
    /\ UNCHANGED <<qpc, sigma, mask, filterMask, region, out, writers>>
    /\ UNCHANGED <<d1vars, ivars>>

\* lines 128-145: one turn of the loop
ThreadedGenerateData_step(t) ==
    /\ qpc = "threads"
    /\ iters[t].st = "run"
    /\ iters[t].in <= InputIterRegion(region[t])[2]
    /\ LET it == iters[t]
           inside == IF filterMask.null THEN TRUE
                     ELSE filterMask.img[it.mask] # 0
       IN  /\ IF inside
              THEN /\ out' = [out EXCEPT ![it.out] = signalOf(ParamImage(it.in))]
                   /\ writers' = [writers EXCEPT ![it.out] = @ \cup {t}]
              ELSE UNCHANGED <<out, writers>>
           /\ iters' = [iters EXCEPT ![t] =
                          [st |-> "run",
                           in |-> it.in + 1,
                           mask |-> IF filterMask.null THEN it.mask
                                    ELSE it.mask + 1,
                           out |-> it.out + 1]]
    /\ UNCHANGED <<qpc, sigma, mask, filterMask, region>>
    /\ UNCHANGED <<d1vars, ivars>>

\* line 128: inIters[0].IsAtEnd()
ThreadedGenerateData_end(t) ==
    /\ qpc = "threads"
    /\ iters[t].st = "run"
    /\ iters[t].in > InputIterRegion(region[t])[2]
    /\ iters' = [iters EXCEPT ![t].st = "end"]
    /\ UNCHANGED <<qpc, sigma, mask, filterMask, region, out, writers>>
    /\ UNCHANGED <<d1vars, ivars>>

\* lines 330-342: the workers have joined; the writer writes the image
main_write ==
    /\ qpc = "threads"
    /\ \A t \in Threads : iters[t].st = "end"
    /\ qpc' = "done"
    /\ UNCHANGED <<sigma, mask, filterMask, region, iters, out, writers>>
    /\ UNCHANGED <<d1vars, ivars>>

QNext ==
    \/ \E val \in SigmaValues : opt_noise(val)
    \/ \E img \in MaskImages : opt_mask(img)
    \/ main_update
    \/ \E t \in Threads : ThreadedGenerateData_begin(t)
    \/ \E t \in Threads : ThreadedGenerateData_step(t)
    \/ \E t \in Threads : ThreadedGenerateData_end(t)
    \/ main_write

\* ------------------------------------------- command lines and input
\* qsignal.cpp lines 272-274: the model each option makes
ModelOptions == {"1", "2", "3"}
ModelOf(opt) ==
    CASE opt = "1" -> "SCD"
      [] opt = "2" -> "MCD2"
      [] opt = "3" -> "MCD3"
NoOption == "none"

\* qsignal.cpp lines 221-238: the type strings parseInput knows and the
\* sequence class it makes for each
SequenceClass ==
    [ SPGR |-> "SPGRSimple", SPGRFinite |-> "SPGRFinite",
      SSFP |-> "SSFPSimple", SSFPFinite |-> "SSFPFinite",
      SSFPEllipse |-> "SSFPEllipse", IRSPGR |-> "IRSPGR",
      MPRAGE |-> "MPRAGE", AFI |-> "AFI", SPINECHO |-> "MultiEcho" ]
\* a chain of comparisons that takes every string for a sequence
IsKnownType_Any(t) == TRUE
\* lines 221-239: one of the comparisons type == "..." succeeds
IsKnownType(t) == t \in DOMAIN SequenceClass
\* lines 222-238: make_shared<...>(prompt)
MakeSequence(t) ==
    IF t \in DOMAIN SequenceClass THEN <<"sequence", SequenceClass[t]>>
    ELSE <<"sequence", "unknown", t>>
\* line 220: the strings that end the loop
EndsInput(t) == t = "END" \/ t = ""
\* line 220: what Read(cin, type) can give: a line, or failure at the end of
\* the input
TypeLines == DOMAIN SequenceClass \cup {"END", "", "spgr", "DESPOT2", "SPGR "}
FileNames == {"out.nii"}
MaxSequences == 2

\* qdespot1.cpp lines 199-208: the arguments --algo is tried with, as
\* character strings; *optarg is the first character, NUL for the empty one
AlgoArgs == { <<"l">>, <<"w">>, <<"n">>, <<"x">>, <<"L">>, <<>>, <<"n", "o">> }
NoArg == <<"none">>
FirstChar(optarg) == IF Len(optarg) = 0 THEN "NUL" ELSE optarg[1]
\* lines 200-207: the switch on *optarg; "none": the default branch
AlgoOf(ch) ==
    CASE ch = "l" -> "LLS"
      [] ch = "w" -> "WLLS"
      [] ch = "n" -> "NLLS"
      [] OTHER -> "none"

IInit ==
    /\ model = "SCD"
    /\ modelOpt = NoOption
    /\ ipc = "not called"
    /\ type = ""
    /\ cs = <<>>
    /\ names = <<>>
    /\ dpc = "options"
    /\ algoArg = NoArg

\* qsignal.cpp lines 272-274: case '1', '2', '3'
opt_model(opt) ==
    /\ qpc = "options" /\ ipc = "not called"
    /\ model' = ModelOf(opt)
    /\ modelOpt' = opt
    /\ UNCHANGED <<ipc, type, cs, names, dpc, algoArg>>
    /\ UNCHANGED <<d1vars, qvars>>

\* qsignal.cpp lines 294-320: the options are read, SetModel(model), and
\* main calls parseInput(sequences, filenames)
main_parseInput ==
    /\ qpc = "options" /\ ipc = "not called"
    /\ ipc' = "loop"
    /\ UNCHANGED <<model, modelOpt, type, cs, names, dpc, algoArg>>
    /\ UNCHANGED <<d1vars, qvars>>

\* qsignal.cpp lines 220-241: Read(cin, type), the test of the loop and the
\* chain of comparisons
parseInput_type ==
    /\ ipc = "loop"
    /\ \E ok \in BOOLEAN, line \in TypeLines :
          IF ~ok
          THEN /\ ipc' = "returned"
               /\ UNCHANGED <<type, cs>>
          ELSE /\ type' = line
               /\ IF EndsInput(line)
                  THEN ipc' = "returned" /\ UNCHANGED cs
                  ELSE IF IsKnownType(line)
                       THEN /\ Len(cs) < MaxSequences
                            /\ cs' = Append(cs, MakeSequence(line))
                            /\ ipc' = "filename"
                       ELSE /\ ipc' = "threw"
                            /\ UNCHANGED cs
    /\ UNCHANGED <<model, modelOpt, names, dpc, algoArg>>
    /\ UNCHANGED <<d1vars, qvars>>

\* qsignal.cpp lines 242-245: Read(cin, filename); names.push_back(filename)
parseInput_filename ==
    /\ ipc = "filename"
    /\ \E filename \in FileNames : names' = Append(names, filename)
    /\ ipc' = "loop"
    /\ UNCHANGED <<model, modelOpt, type, cs, dpc, algoArg>>
    /\ UNCHANGED <<d1vars, qvars>>

\* qdespot1.cpp lines 199-208: case 'a'
opt_algo(optarg) ==
    /\ dpc = "options" /\ pc = "idle"
    /\ algoArg' = optarg
    /\ IF AlgoOf(FirstChar(optarg)) = "none"
       THEN /\ dpc' = "failed"
            /\ UNCHANGED m_type
       ELSE /\ m_type' = AlgoOf(FirstChar(optarg))
            /\ UNCHANGED dpc
    /\ UNCHANGED <<m_iterations, pc, sequence, data, inputs, oob, B1, flip,
                   X, Y, outputs, resids, n, nfev, maxfev, x0, fnorm, fullParams>>
    /\ UNCHANGED <<model, modelOpt, ipc, type, cs, names>>
    /\ UNCHANGED qvars

\* qdespot1.cpp lines 221-246: the options are read; apply->Update() runs
\* the fits
main_fit ==
    /\ dpc = "options" /\ pc = "idle"
    /\ dpc' = "fitting"
    /\ UNCHANGED <<model, modelOpt, ipc, type, cs, names, algoArg>>
    /\ UNCHANGED <<d1vars, qvars>>

INext ==
    \/ \E opt \in ModelOptions : opt_model(opt)
    \/ main_parseInput
    \/ parseInput_type
    \/ parseInput_filename
    \/ \E optarg \in AlgoArgs : opt_algo(optarg)
    \/ main_fit

Init == D1Init /\ QInit /\ IInit
Next == D1Next
\* the estimator
Spec == Init /\ [][Next]_vars
\* qsignal
SpecSignal == Init /\ [][QNext]_vars
\* the command lines of the two programs and qsignal's standard input
SpecInput == Init /\ [][INext]_vars

\* ------------------------------------------------------------ properties
\* the closed-form estimate of lines 97-105 for the call at hand
ClosedForm == OutputsOf(LinearSolve(X, Y))
\* the forward-model magnitude at the estimate
TheoryAt(est) == VAbs(One_SPGR(sequence, est[1], est[2], B1))
Returned == pc = "done"
\* the call at hand keeps the contract on its vector lengths
WellFormed == Len(data) = size(sequence) /\ Len(inputs) = 1

\* C1: after apply returns, resids[i] is the forward-model magnitude at the
\* estimated {PD, T1} minus data[i] (predicted minus observed), whatever the
\* strategy.
C1_ResidualIsPredictedMinusObserved ==
    (Returned /\ WellFormed /\ size(sequence) > 2) =>
        \A i \in 1..Len(resids) :
            resids[i] = Sub(TheoryAt(outputs)[i], EffData[i])

\* C2: a T1 that is not finite or not positive is never returned as an
\* ordinary result: the call ends in an outcome the caller can tell from a
\* converged one.
C2_BadT1NeverReturned ==
    (Returned /\ WellFormed /\ ~ZeroDivisor(flip)) => T1IsFinite(outputs[2]) /\ T1IsPositive(outputs[2])

\* C3: a call whose data length differs from the sequence's condition count,
\* or whose constants vector is not of length 1, is rejected before any
\* output is produced, for every strategy.
C3_ContractViolationRejected ==
    (pc # "idle" /\ (Len(data) # size(sequence) \/ Len(inputs) # 1))
        => pc = "aborted"

\* C4: with WLLS and N iterations configured, apply makes exactly N
\* reweighting passes after the unweighted solve, none skipped and no early
\* exit; pass k computes its weights from the T1 of pass k-1 and overwrites
\* both PD and T1.
RECURSIVE AfterPasses(_)
AfterPasses(k) ==
    IF k = 0 THEN ClosedForm
    ELSE LET prev == AfterPasses(k - 1)
             b == WeightedSolve(X, Y, Wof(flip, prev[2]))
         IN  <<Div(b[2], Sub(One, b[1])), NegTROverLog(b[1])>>
C4_WLLSExactPasses ==
    (m_type = "WLLS" /\ pc \in {"wlls", "resid", "done", "threw"}) =>
        /\ n <= m_iterations
        /\ pc # "wlls" => n = m_iterations
        /\ outputs = AfterPasses(n)
C4_Witness ==
    /\ m_type = "WLLS" /\ Returned
    /\ m_iterations = 4 /\ n = 4
    /\ outputs # ClosedForm
    /\ outputs # AfterPasses(3)

\* C5: WLLS with 0 iterations gives exactly the outputs and residuals of
\* LLS on the same input.
C5_WLLSZeroIsLLS ==
    (m_type = "WLLS" /\ m_iterations = 0 /\ pc \in {"resid", "done", "threw"}) =>
        /\ outputs = ClosedForm
        /\ pc = "threw" => SPGRDomainError(ClosedForm[2])
        /\ pc = "done" => /\ ~SPGRDomainError(ClosedForm[2])
                          /\ resids = Residuals(EffData, TheoryAt(ClosedForm))
C5_Witness ==
    /\ m_type = "WLLS" /\ m_iterations = 0 /\ Returned
    /\ Len(resids) = 3
    /\ \E i \in 1..3 : IsNum(resids[i]) /\ resids[i] # Zero

\* C6 as stated: NLLS starts the optimizer from the closed-form {PD, T1},
\* caps the evaluations at iterations * (conditionCount + 1), never evaluates
\* the residual function more often than that, and varies only PD and T1
\* with B1 held at the constants value.
InNLLS == m_type = "NLLS" /\ pc \in {"lm", "lm_trial", "resid", "done", "threw"}
C6_Setup ==
    /\ x0 = ClosedForm
    /\ maxfev = m_iterations * (size(sequence) + 1)
    /\ nfev > 0 =>
          /\ fullParams[3] = Zero /\ fullParams[4] = Zero
          /\ fullParams[5] = B1
          /\ Len(inputs) >= 1 => fullParams[5] = inputs[1]
C6_EvaluationsWithinCap ==
    InNLLS => C6_Setup /\ nfev <= maxfev
\* C6 amended: the cap is compared with the count only after a trial-point
\* evaluation, so the count can pass the cap by the evaluations of one
\* Jacobian; while the optimizer runs the count is below that bound and every
\* step of the optimizer adds to it.
C6_EvaluationsWithinCapPlusJacobian ==
    InNLLS =>
        /\ C6_Setup
        /\ nfev <= maxfev + JacobianEvals
        /\ pc = "lm" => nfev < maxfev
        /\ pc = "lm_trial" => nfev < maxfev + JacobianEvals
C6_Witness ==
    /\ m_type = "NLLS" /\ Returned
    /\ nfev = maxfev + JacobianEvals
    /\ outputs # x0
    /\ fullParams[5] = Num(2 * SCALE)

\* C7: with a 0-radian entry in the B1-scaled flip angles the linearization
\* never divides by sin(0) or tan(0).
C7_NoZeroDivisor ==
    (pc \notin {"idle", "aborted"} /\ WellFormed /\ B1 # Zero) => ~ZeroDivisor(flip)

\* C8: workers running ThreadedGenerateData on disjoint regions write only
\* voxels of their own region; no voxel is written by two workers, and the
\* final image is the one sequential processing gives.
SequentialOutput ==
    [v \in Voxels |->
        IF filterMask.null \/ filterMask.img[v] # 0
        THEN signalOf(ParamImage(v)) ELSE Unset]
C8_DisjointWrites ==
    /\ \A v \in Voxels :
          /\ Cardinality(writers[v]) <= 1
          /\ \A t \in writers[v] : region[t][1] <= v /\ v <= region[t][2]
          /\ writers[v] = {} => out[v] = Unset
    /\ qpc = "done" => out = SequentialOutput
C8_Witness ==
    /\ qpc = "done"
    /\ \E v, w \in Voxels : writers[v] = {1} /\ writers[w] = {2}

\* C9: with a non-zero --noise the written signal of every voxel is the
\* forward-model signal plus noise of that standard deviation.
Noisy(s, sd) == <<"noisy", s, sd>>
C9_NoiseAdded ==
    (qpc = "done" /\ sigma # Zero) =>
        \A v \in Voxels :
            out[v] # Unset => out[v] = Noisy(signalOf(ParamImage(v)), sigma)

\* C10: with --mask only the voxels where the mask is non-zero are computed
\* and written, each from the parameters of the same voxel.
C10_OnlyInsideMask ==
    (qpc = "done" /\ ~mask.null) =>
        \A v \in Voxels :
            IF mask.img[v] # 0 THEN out[v] = signalOf(ParamImage(v))
            ELSE out[v] = Unset
\* C11: with none of --1, --2, --3 the model qsignal uses is the 3-component
\* one; with several of them the last one given decides.
C11_DefaultThreeLastWins ==
    ipc # "not called" =>
        model = IF modelOpt = NoOption THEN "MCD3" ELSE ModelOf(modelOpt)

\* C12: an unknown name is never passed over.  In parseInput a type string
\* that is none of the nine sequence names, END or the empty string raises
\* the error and nothing is appended for it: the lists hold sequences of the
\* known classes only and have equal length whenever parseInput is between
\* two turns, has returned or has thrown.  In qdespot1 an --algo argument
\* whose letter is not l, w or n ends main with failure, the strategy as it
\* was, and no fit runs.
KnownSequences == { <<"sequence", SequenceClass[t]>> : t \in DOMAIN SequenceClass }
NineNames ==
    {"SPGR", "SPGRFinite", "SSFP", "SSFPFinite", "SSFPEllipse", "IRSPGR",
     "MPRAGE", "AFI", "SPINECHO"}
C12_UnknownNamesRejected ==
    /\ DOMAIN SequenceClass = NineNames
    /\ (ipc # "not called" /\ type \notin NineNames \cup {"END", ""})
           => ipc = "threw"
    /\ ipc = "threw" => type \notin NineNames \cup {"END", ""}
    /\ \A i \in 1..Len(cs) : cs[i] \in KnownSequences
    /\ Len(cs) = Len(names) + (IF ipc = "filename" THEN 1 ELSE 0)
    /\ (algoArg # NoArg /\ FirstChar(algoArg) \notin {"l", "w", "n"})
           => dpc = "failed"
    /\ dpc = "failed" => /\ algoArg # NoArg
                         /\ FirstChar(algoArg) \notin {"l", "w", "n"}
    /\ (dpc = "fitting" /\ algoArg # NoArg) =>
           m_type = CASE FirstChar(algoArg) = "l" -> "LLS"
                      [] FirstChar(algoArg) = "w" -> "WLLS"
                      [] FirstChar(algoArg) = "n" -> "NLLS"
C12_Witness ==
    /\ ipc = "threw" /\ type = "spgr"
    /\ Len(cs) = 1 /\ Len(names) = 1
    /\ dpc = "failed" /\ algoArg = <<"x">> /\ m_type = "WLLS"
=============================================================================
